---- MODULE Spec2Model ----
(***************************************************************************)
(* Model of the tabular statistics core of datasheet-for-dataset:          *)
(*   dfd/dataset/polars_strategy.py  PolarsTabularAnalyses.describe        *)
(*   dfd/dataset/pandas_strategy.py  PandasTabularAnalyses.describe        *)
(*   dfd/dataset/analyses.py         TabularStatistics, TabularDataContext *)
(*                                   and the older PandasTabularAnalyses   *)
(*                                                                         *)
(* Numbers.  Every float the program handles is carried as an exact        *)
(* rational [n, d] in lowest terms; NaN is the record with d = 0.  An      *)
(* Optional value is a sequence of length at most one: <<>> is None and    *)
(* <<x>> is x.  The standard deviation is carried as its square (the       *)
(* sample variance, ddof = 1): the square root is injective on the         *)
(* non-negative rationals, so presence and equality are preserved.         *)
(***************************************************************************)
EXTENDS Integers, Sequences, FiniteSets, TLC

VARIABLES strategy, data, outcome, trace, rendered, request, loaded,
          _statistics, file, cached_structure, structure, template_dir

\* strategy: TabularDataContext._strategy;  data: the dataframe the caller
\* holds;  outcome: what calculate_tabular_statistics gave the caller;
\* trace: the operations the caller has made on the context, in order;
\* rendered: what the last formatting operation gave;  request, loaded: the
\* argument and the result of a dataset load;  _statistics: the Datasheet's cache;
\* file: the markdown file a structure is saved to and loaded from;
\* cached_structure: TemplateManager._cached_structure;  structure: the
\* DatasheetStructure the caller holds;  template_dir: the subsection
\* headings of the template files in DatasheetTemplate.template_dir
vars ==
    <<strategy, data, outcome, trace, rendered, request, loaded,
      _statistics, file, cached_structure, structure, template_dir>>

----------------------------------------------------------------------------
(* Bounds of the model *)

MaxCols == 2

MaxRows == 4

MaxCells == 4

MaxVal == 2

----------------------------------------------------------------------------
(* Rationals and optional values *)

RECURSIVE GCD(_, _)
GCD(a, b) == IF b = 0 THEN a ELSE GCD(b, a % b)

Abs(x) == IF x < 0 THEN -x ELSE x

\* n/d with d > 0, in lowest terms
Rat(n, d) ==
    LET g == GCD(Abs(n), d)
    IN  [n |-> n \div g, d |-> d \div g]

NaN == [n |-> 0, d |-> 0]

IsNaN(x) == x.d = 0

Leq(x, y) == x.n * y.d <= y.n * x.d

None == <<>>

Some(x) == <<x>>

Present(f) == f # None

----------------------------------------------------------------------------
(* Dataframes handed to the program *)

NameOf == <<"a", "b", "c", "d">>

Names == {NameOf[i] : i \in 1..MaxCols}

StrValues == {"A", "B"}

IntValues == 1..MaxVal

\* a cell is null (<<>>) or holds one value of the column's dtype
Cells(dtype) ==
    IF dtype = "int"
      THEN {<<>>} \cup {<<v>> : v \in IntValues}
      ELSE {<<>>} \cup {<<v>> : v \in StrValues}

ColumnsOf(dtype, r) ==
    {[name |-> nm, dtype |-> dtype, values |-> vs] :
        nm \in Names, vs \in [1..r -> Cells(dtype)]}

Columns(r) == ColumnsOf("int", r) \cup ColumnsOf("str", r)

\* c columns of r rows each, with pairwise distinct names
ColumnLists(c, r) ==
    {cs \in [1..c -> Columns(r)] :
        \A i, j \in 1..c : i # j => cs[i].name # cs[j].name}

Shapes ==
    {<<c, r>> \in (0..MaxCols) \X (0..MaxRows) :
        /\ c * r <= MaxCells
        /\ (c = 0 => r = 0)}

DataFrames(engine) ==
    UNION {{[engine |-> engine, columns |-> cs] : cs \in ColumnLists(s[1], s[2])} :
              s \in Shapes}

\* an argument that is neither a pandas nor a polars DataFrame
Unrelated == [engine |-> "other", columns |-> <<>>]

Inputs == DataFrames("pandas") \cup DataFrames("polars") \cup {Unrelated}

----------------------------------------------------------------------------
(* Arithmetic both engines share *)

\* the non-null values of a column, in row order (drop_nulls / skipna)
drop_nulls(values) ==
    LET kept == SelectSeq(values, LAMBDA c : c # <<>>)
    IN  [i \in 1..Len(kept) |-> kept[i][1]]

Sorted(xs) == SortSeq(xs, LAMBDA a, b : a < b)

RECURSIVE SumSeq(_)
SumSeq(xs) == IF xs = <<>> THEN 0 ELSE Head(xs) + SumSeq(Tail(xs))

SumSquares(xs) == SumSeq([i \in 1..Len(xs) |-> xs[i] * xs[i]])

\* mean of a non-empty sequence
Mean(xs) == Rat(SumSeq(xs), Len(xs))

\* sample variance (ddof = 1) of a sequence of at least two values
Variance(xs) ==
    LET n == Len(xs)
    IN  Rat(n * SumSquares(xs) - SumSeq(xs) * SumSeq(xs), n * (n - 1))

Minimum(xs) == Rat(Sorted(xs)[1], 1)

Maximum(xs) == Rat(Sorted(xs)[Len(xs)], 1)

\* interpolation='lower' in place of 'nearest': the position rounded down
NearestQuantile_lower(xs, k) ==
    LET idx == ((Len(xs) - 1) * k) \div 4
    IN  Rat(Sorted(xs)[idx + 1], 1)

\* Series.quantile(k/4, interpolation='nearest') on n >= 1 values: the
\* sorted value at 0-based position round((n - 1) * k / 4), halves rounding up
NearestQuantile(xs, k) ==
    LET idx == (2 * (Len(xs) - 1) * k + 4) \div 8
    IN  Rat(Sorted(xs)[idx + 1], 1)

\* the k-th quartile with linear interpolation on n >= 1 values: position
\* p = (n - 1) * k / 4, value s[floor p] + (s[floor p + 1] - s[floor p]) * frac p
LinearQuantile(xs, k) ==
    LET s == Sorted(xs)
        j == ((Len(xs) - 1) * k) \div 4
        r == ((Len(xs) - 1) * k) % 4
    IN  IF r = 0 THEN Rat(s[j + 1], 1)
        ELSE Rat(4 * s[j + 1] + (s[j + 2] - s[j + 1]) * r, 4)

----------------------------------------------------------------------------
(* dfd/dataset/analyses.py: the record *)

TabularStatistics(column_name, count, highest_quantile, middle_quantile, lowest_quantile, max_val, min_val, mean_val, std_val) ==
    [column_name |-> column_name,
     count |-> count,
     highest_quantile |-> highest_quantile,
     middle_quantile |-> middle_quantile,
     lowest_quantile |-> lowest_quantile,
     max_val |-> max_val,
     min_val |-> min_val,
     mean_val |-> mean_val,
     std_val |-> std_val]

Returned(records) == [status |-> "returned", records |-> records]

Raised(error) == [status |-> "raised", error |-> error]

NoCall == [status |-> "none"]

----------------------------------------------------------------------------
(* dfd/dataset/polars_strategy.py *)

is_numeric(dtype) == dtype = "int"

\* a std that asks for three values
polars_std_needs_three(non_null) ==
    IF Len(non_null) < 3 THEN None ELSE Some(Variance(non_null))

\* Series.std(): null where fewer than two values remain
polars_std(non_null) ==
    IF Len(non_null) < 2 THEN None ELSE Some(Variance(non_null))

\* a quantile that gives up on a single value
quantile_needs_two(k, non_null, count) ==
    IF count <= 1 THEN None ELSE Some(NearestQuantile(non_null, k))

\* a quantile left at the library's default, linear interpolation
quantile_linear(k, non_null, count) ==
    IF count = 0 THEN None ELSE Some(LinearQuantile(non_null, k))

\* the closure quantile(q) of describe, q = k/4
quantile(k, non_null, count) ==
    IF count = 0 THEN None ELSE Some(NearestQuantile(non_null, k))

\* count taken as series.len(), nulls included
PolarsColumnStatistics_len(column) ==
    LET non_null == drop_nulls(column.values)
        count == Len(non_null)
        length == Len(column.values)
    IN  IF is_numeric(column.dtype) /\ count > 0
          THEN TabularStatistics(column.name, Some(Rat(length, 1)),
                                 quantile(3, non_null, count),
                                 quantile(2, non_null, count),
                                 quantile(1, non_null, count),
                                 Some(Maximum(non_null)),
                                 Some(Minimum(non_null)),
                                 Some(Mean(non_null)),
                                 polars_std(non_null))
          ELSE TabularStatistics(column.name, Some(Rat(length, 1)),
                                 None, None, None, None, None, None, None)

\* the body of the loop over data.columns: the record of one column
PolarsColumnStatistics(column) ==
    LET non_null == drop_nulls(column.values)
        count == Len(non_null)
    IN  IF is_numeric(column.dtype) /\ count > 0
          THEN TabularStatistics(column.name, Some(Rat(count, 1)),
                                 quantile(3, non_null, count),
                                 quantile(2, non_null, count),
                                 quantile(1, non_null, count),
                                 Some(Maximum(non_null)),
                                 Some(Minimum(non_null)),
                                 Some(Mean(non_null)),
                                 polars_std(non_null))
          ELSE TabularStatistics(column.name, Some(Rat(count, 1)),
                                 None, None, None, None, None, None, None)

RECURSIVE PolarsResults(_, _)
PolarsResults(columns, results) ==
    IF columns = <<>> THEN results
    ELSE PolarsResults(Tail(columns),
                       Append(results, PolarsColumnStatistics(Head(columns))))

\* a describe that leaves the non-numeric columns out of its result
PolarsTabularAnalyses_describe_numeric_only(frame) ==
    IF frame.engine = "polars"
    THEN Returned(PolarsResults(SelectSeq(frame.columns,
                                          LAMBDA c : is_numeric(c.dtype)), <<>>))
    ELSE Raised("AttributeError")

\* PolarsTabularAnalyses.describe(data).  A polars frame is walked column by
\* column.  A pandas frame has .columns too: with no column the loop body never
\* runs; otherwise the pandas Series has no drop_nulls.  Any other object has
\* no .columns.
PolarsTabularAnalyses_describe(frame) ==
    IF frame.engine = "polars"
      THEN Returned(PolarsResults(frame.columns, <<>>))
    ELSE IF frame.engine = "pandas" /\ frame.columns = <<>>
      THEN Returned(<<>>)
    ELSE Raised("AttributeError")

----------------------------------------------------------------------------
(* pandas: DataFrame.describe(include='all') *)

NumericLabels == {"count", "mean", "std", "min", "25%", "50%", "75%", "max"}

ObjectLabels == {"count", "unique", "top", "freq"}

\* an object-dtype cell of the summary that is not a number (the "top" row)
Opaque == [obj |-> "top"]

\* Series.describe() of a numeric column: NaN for every undefined row
describe_numeric_1d(column) ==
    LET xs == drop_nulls(column.values)
        n == Len(xs)
    IN  [l \in NumericLabels |->
            IF l = "count" THEN Rat(n, 1)
            ELSE IF n = 0 THEN NaN
            ELSE IF l = "mean" THEN Mean(xs)
            ELSE IF l = "std" THEN (IF n < 2 THEN NaN ELSE Variance(xs))
            ELSE IF l = "min" THEN Minimum(xs)
            ELSE IF l = "25%" THEN LinearQuantile(xs, 1)
            ELSE IF l = "50%" THEN LinearQuantile(xs, 2)
            ELSE IF l = "75%" THEN LinearQuantile(xs, 3)
            ELSE Maximum(xs)]

\* Series.describe() of an object column
describe_categorical_1d(column) ==
    LET xs == drop_nulls(column.values)
        n == Len(xs)
    IN  [l \in ObjectLabels |->
            IF l = "count" THEN Rat(n, 1)
            ELSE IF l = "unique" THEN Rat(Cardinality({xs[i] : i \in 1..n}), 1)
            ELSE IF n = 0 THEN NaN
            ELSE Opaque]

describe_1d(column) ==
    IF is_numeric(column.dtype) THEN describe_numeric_1d(column)
    ELSE describe_categorical_1d(column)

\* the index of the summary table: every label some column has
DescribeIndex(columns) ==
    UNION {DOMAIN describe_1d(columns[i]) : i \in 1..Len(columns)}

\* the summary table of a frame with at least one column: per column, its
\* own summary reindexed to the common index (NaN where it has no such row),
\* as float64 for a numeric column and as object otherwise
DataFrame_describe(columns) ==
    [i \in 1..Len(columns) |->
        [name |-> columns[i].name,
         dtype |-> IF is_numeric(columns[i].dtype) THEN "float64" ELSE "object",
         cells |-> [l \in DescribeIndex(columns) |->
                      LET d == describe_1d(columns[i])
                      IN  IF l \in DOMAIN d THEN Some(d[l]) ELSE Some(NaN)]]]

\* statistics.where(statistics.notna(), None): an object column takes the
\* None; a float64 column cannot hold it and keeps NaN
where_notna_None(table) ==
    [i \in 1..Len(table) |->
        [table[i] EXCEPT !.cells =
            [l \in DOMAIN table[i].cells |->
                IF table[i].dtype = "object" /\ table[i].cells[l] = Some(NaN)
                  THEN None
                  ELSE table[i].cells[l]]]]

\* pd.isna(value)
isna(value) == value = None \/ value = Some(NaN)

----------------------------------------------------------------------------
(* dfd/dataset/pandas_strategy.py *)

\* a pick that answers 0 for a label the index lacks
pick_zero_default(label, series) ==
    IF label \notin DOMAIN series.cells THEN Some(Rat(0, 1))
    ELSE IF isna(series.cells[label]) THEN None
    ELSE series.cells[label]

\* the closure pick(label) of _to_statistics
pick(label, series) ==
    IF label \notin DOMAIN series.cells THEN None
    ELSE IF isna(series.cells[label]) THEN None
    ELSE series.cells[label]

\* highest_quantile and lowest_quantile fed from each other's label
PandasColumnStatistics_swapped(series) ==
    TabularStatistics(series.name,
                      pick("count", series),
                      pick("25%", series),
                      pick("50%", series),
                      pick("75%", series),
                      pick("max", series),
                      pick("min", series),
                      pick("mean", series),
                      pick("std", series))

\* the record _to_statistics yields for one column of the summary table
PandasColumnStatistics(series) ==
    TabularStatistics(series.name,
                      pick("count", series),
                      pick("75%", series),
                      pick("50%", series),
                      pick("25%", series),
                      pick("max", series),
                      pick("min", series),
                      pick("mean", series),
                      pick("std", series))

RECURSIVE PandasTabularAnalyses_to_statistics(_, _)
PandasTabularAnalyses_to_statistics(statistics_data, results) ==
    IF statistics_data = <<>> THEN results
    ELSE PandasTabularAnalyses_to_statistics(
             Tail(statistics_data),
             Append(results, PandasColumnStatistics(Head(statistics_data))))

\* PandasTabularAnalyses.describe(data).  pandas refuses to describe a frame
\* without columns (ValueError); polars' describe takes no `include`
\* (TypeError); any other object has no describe.
PandasTabularAnalyses_describe(frame) ==
    IF frame.engine = "pandas"
      THEN IF frame.columns = <<>>
             THEN Raised("ValueError")
             ELSE Returned(PandasTabularAnalyses_to_statistics(
                               where_notna_None(DataFrame_describe(frame.columns)),
                               <<>>))
    ELSE IF frame.engine = "polars" THEN Raised("TypeError")
    ELSE Raised("AttributeError")

----------------------------------------------------------------------------
(* dfd/dataset/analyses.py: the older pandas strategy *)

\* statistics_data[column].loc[[label]].item(): the label must be in the index
loc_item(label, series) == series.cells[label]

EightLabels == <<"count", "75%", "50%", "25%", "max", "min", "mean", "std">>

\* the labels among the eight that the index of the summary table lacks
MissingLabels(series) ==
    {k \in 1..Len(EightLabels) : EightLabels[k] \notin DOMAIN series.cells}

\* the record _harmonized_statistics_structure builds for one column whose
\* eight labels are all in the index
OlderPandasColumnStatistics(series) ==
    TabularStatistics(series.name,
                      loc_item("count", series),
                      loc_item("75%", series),
                      loc_item("50%", series),
                      loc_item("25%", series),
                      loc_item("max", series),
                      loc_item("min", series),
                      loc_item("mean", series),
                      loc_item("std", series))

RECURSIVE analyses_harmonized_statistics_structure(_, _)
analyses_harmonized_statistics_structure(statistics_data, tabular_statistics) ==
    IF statistics_data = <<>> THEN Returned(tabular_statistics)
    ELSE IF MissingLabels(Head(statistics_data)) # {} THEN Raised("KeyError")
    ELSE analyses_harmonized_statistics_structure(
             Tail(statistics_data),
             Append(tabular_statistics,
                    OlderPandasColumnStatistics(Head(statistics_data))))

analyses_PandasTabularAnalyses_describe(frame) ==
    IF frame.engine = "pandas"
      THEN IF frame.columns = <<>>
             THEN Raised("ValueError")
             ELSE analyses_harmonized_statistics_structure(
                      where_notna_None(DataFrame_describe(frame.columns)), <<>>)
    ELSE IF frame.engine = "polars" THEN Raised("TypeError")
    ELSE Raised("AttributeError")

----------------------------------------------------------------------------
(* dfd/dataset/analyses.py: TabularDataContext *)

PolarsStrategy == "dfd.dataset.polars_strategy.PolarsTabularAnalyses"

PandasStrategy == "dfd.dataset.pandas_strategy.PandasTabularAnalyses"

OlderPandasStrategy == "dfd.dataset.analyses.PandasTabularAnalyses"

StrategyInstances == {PolarsStrategy, PandasStrategy, OlderPandasStrategy}

\* the tokens callers hand over in place of an instance (create.py, compiler.py)
Tokens == {"auto", "pandas", "polars"}

Specifiers == StrategyInstances \cup Tokens

\* a context that looks at the dataframe rather than at the instance it holds
describe_autodetect(s, frame) ==
    IF s \notin StrategyInstances THEN Raised("AttributeError")
    ELSE IF frame.engine = "polars" THEN PolarsTabularAnalyses_describe(frame)
    ELSE PandasTabularAnalyses_describe(frame)

\* self._strategy.describe(data): a str has no attribute describe
describe(s, frame) ==
    IF s = PolarsStrategy THEN PolarsTabularAnalyses_describe(frame)
    ELSE IF s = PandasStrategy THEN PandasTabularAnalyses_describe(frame)
    ELSE IF s = OlderPandasStrategy THEN analyses_PandasTabularAnalyses_describe(frame)
    ELSE Raised("AttributeError")

\* the parts of the state an operation of another component leaves alone
ContextVars == <<strategy, data, outcome>>

FormatVars == <<rendered>>

LoaderVars == <<request, loaded>>

NoRender == [op |-> "none"]

NoRequest == [path |-> "none"]

NotLoaded == [status |-> "none"]

DatasheetVars == <<_statistics>>

TemplateVars == <<file, cached_structure, structure, template_dir>>

\* no file written, no structure created
NoFile == [written |-> FALSE]

NoStructure == [created |-> FALSE]

\* a templates directory without a file
NoTemplates == <<>>

\* nothing formatted, nothing loaded, no operation recorded
OthersIdle ==
    /\ trace = <<>>
    /\ rendered = NoRender
    /\ request = NoRequest
    /\ loaded = NotLoaded
    /\ _statistics = None
    /\ file = NoFile
    /\ cached_structure = None
    /\ structure = NoStructure
    /\ template_dir = NoTemplates

\* TabularDataContext(strategy), and the dataframe its caller holds
Init ==
    /\ strategy \in Specifiers
    /\ data \in Inputs
    /\ outcome = NoCall
    /\ OthersIdle

\* the strategy setter; outcome is what the last call made with the current
\* specifier gave its caller, so a new specifier starts without one
SetStrategy(s) ==
    /\ s # strategy
    /\ strategy' = s
    /\ outcome' = NoCall
    /\ UNCHANGED data

\* a context that keeps the result of its first call
calculate_cached ==
    /\ outcome' = IF outcome = NoCall THEN describe(strategy, data) ELSE outcome
    /\ UNCHANGED <<strategy, data>>

\* a context that adds the records of a call to those of the call before
calculate_accumulating ==
    /\ outcome' = LET result == describe(strategy, data)
                  IN  IF outcome.status = "returned" /\ result.status = "returned"
                        THEN Returned(outcome.records \o result.records)
                        ELSE result
    /\ UNCHANGED <<strategy, data>>

\* calculate_tabular_statistics(data)
calculate_tabular_statistics ==
    /\ outcome' = describe(strategy, data)
    /\ UNCHANGED <<strategy, data>>

Next ==
    \/ \E s \in Specifiers :
          SetStrategy(s)
          /\ UNCHANGED <<trace, FormatVars, LoaderVars, DatasheetVars, TemplateVars>>
    \/ calculate_tabular_statistics
          /\ UNCHANGED <<trace, FormatVars, LoaderVars, DatasheetVars, TemplateVars>>

Spec == Init /\ [][Next]_vars

----------------------------------------------------------------------------
(* Vocabulary of the properties: what a column holds, counted directly *)

Called == outcome.status # "none"

HasReturned == outcome.status = "returned"

\* the polars strategy on a polars frame, or the pandas strategy on a pandas frame
PolarsCall == Called /\ strategy = PolarsStrategy /\ data.engine = "polars"

PandasCall == Called /\ strategy = PandasStrategy /\ data.engine = "pandas"

NativeCall == PolarsCall \/ PandasCall

ColumnIndexes == 1..Len(data.columns)

NonNullRows(column) ==
    {r \in 1..Len(column.values) : column.values[r] # <<>>}

NonNullCount(column) == Cardinality(NonNullRows(column))

NonNullValues(column) == {column.values[r][1] : r \in NonNullRows(column)}

IsNumericColumn(column) == column.dtype = "int"

SixFields(rec) ==
    {rec.mean_val, rec.min_val, rec.max_val,
     rec.lowest_quantile, rec.middle_quantile, rec.highest_quantile}

SevenFields(rec) == SixFields(rec) \cup {rec.std_val}

AllPresent(fields) == \A f \in fields : Present(f)

AllAbsent(fields) == \A f \in fields : f = None

----------------------------------------------------------------------------
(* C1 *)

\* C1 (as claimed): for every pandas or polars dataframe with columns
\* c1..cn, describe returns exactly n records and the i-th record carries the
\* name of the i-th input column.
C1_OneRecordPerColumnInOrder ==
    NativeCall =>
        /\ HasReturned
        /\ Len(outcome.records) = Len(data.columns)
        /\ \A i \in ColumnIndexes :
               outcome.records[i].column_name = data.columns[i].name

----------------------------------------------------------------------------
(* C2 *)

\* C2: a non-numeric column (either strategy) and a numeric column without a
\* non-null value (polars strategy) get a record whose count is populated and
\* whose mean, std, min, max and three percentiles are all absent.
C2_OnlyCountForNonNumeric ==
    NativeCall =>
        \A i \in ColumnIndexes :
            (\/ ~IsNumericColumn(data.columns[i])
             \/ PolarsCall /\ NonNullCount(data.columns[i]) = 0)
            => /\ HasReturned
               /\ Present(outcome.records[i].count)
               /\ ~IsNaN(outcome.records[i].count[1])
               /\ AllAbsent(SevenFields(outcome.records[i]))

\* a polars call on a frame holding a text column with a value and a numeric
\* column of nulls only
C2_Witness ==
    /\ PolarsCall
    /\ HasReturned
    /\ \E i, j \in ColumnIndexes :
          /\ ~IsNumericColumn(data.columns[i])
          /\ NonNullCount(data.columns[i]) > 0
          /\ IsNumericColumn(data.columns[j])
          /\ Len(data.columns[j].values) > 0
          /\ NonNullCount(data.columns[j]) = 0

----------------------------------------------------------------------------
(* C3 *)

----------------------------------------------------------------------------
(* C4 *)

----------------------------------------------------------------------------
(* C5 *)

\* C5: for every numeric column with at least one non-null value the record
\* satisfies min <= 25th <= 50th <= 75th <= max.
C5_QuartilesOrdered ==
    NativeCall =>
        \A i \in ColumnIndexes :
            (IsNumericColumn(data.columns[i]) /\ NonNullCount(data.columns[i]) >= 1)
            => /\ HasReturned
               /\ AllPresent(SixFields(outcome.records[i]))
               /\ Leq(outcome.records[i].min_val[1], outcome.records[i].lowest_quantile[1])
               /\ Leq(outcome.records[i].lowest_quantile[1], outcome.records[i].middle_quantile[1])
               /\ Leq(outcome.records[i].middle_quantile[1], outcome.records[i].highest_quantile[1])
               /\ Leq(outcome.records[i].highest_quantile[1], outcome.records[i].max_val[1])

\* a record whose 25th percentile lies strictly under its 75th
C5_Witness ==
    /\ NativeCall
    /\ HasReturned
    /\ \E i \in ColumnIndexes :
          /\ IsNumericColumn(data.columns[i])
          /\ Present(outcome.records[i].lowest_quantile)
          /\ Present(outcome.records[i].highest_quantile)
          /\ ~Leq(outcome.records[i].highest_quantile[1],
                  outcome.records[i].lowest_quantile[1])

----------------------------------------------------------------------------
(* C6 *)

\* the frame {a: [1, 2], b: ['A', 'B']} of tests/test_create.py
ScenarioColumns ==
    <<[name |-> "a", dtype |-> "int", values |-> <<<<1>>, <<2>>>>],
      [name |-> "b", dtype |-> "str", values |-> <<<<"A">>, <<"B">>>>]>>

ScenarioB ==
    [column_name |-> "b", count |-> <<[n |-> 2, d |-> 1]>>,
     highest_quantile |-> <<>>, middle_quantile |-> <<>>, lowest_quantile |-> <<>>,
     max_val |-> <<>>, min_val |-> <<>>, mean_val |-> <<>>, std_val |-> <<>>]

\* count 2, mean 3/2, std^2 1/2, min 1, max 2, percentiles 1, 2, 2
ScenarioPolarsA ==
    [column_name |-> "a", count |-> <<[n |-> 2, d |-> 1]>>,
     highest_quantile |-> <<[n |-> 2, d |-> 1]>>,
     middle_quantile |-> <<[n |-> 2, d |-> 1]>>,
     lowest_quantile |-> <<[n |-> 1, d |-> 1]>>,
     max_val |-> <<[n |-> 2, d |-> 1]>>, min_val |-> <<[n |-> 1, d |-> 1]>>,
     mean_val |-> <<[n |-> 3, d |-> 2]>>, std_val |-> <<[n |-> 1, d |-> 2]>>]

\* the same with percentiles 5/4, 3/2, 7/4
ScenarioPandasA ==
    [ScenarioPolarsA EXCEPT !.highest_quantile = <<[n |-> 7, d |-> 4]>>,
                            !.middle_quantile = <<[n |-> 3, d |-> 2]>>,
                            !.lowest_quantile = <<[n |-> 5, d |-> 4]>>]

Quartiles(rec) == {rec.lowest_quantile, rec.middle_quantile, rec.highest_quantile}

\* C6: the strategies differ in their percentiles.  Every percentile of the
\* polars strategy is one of the column's non-null values; on
\* {a: [1, 2], b: ['A', 'B']} polars gives a the percentiles 1, 2, 2 and pandas
\* 1.25, 1.5, 1.75, with the same count 2, mean 1.5, min 1 and max 2, and both
\* give b count 2 and nothing else.
C6_DocumentedDivergence ==
    /\ (PolarsCall /\ HasReturned) =>
          \A i \in ColumnIndexes :
              \A f \in Quartiles(outcome.records[i]) :
                  Present(f) => /\ IsNumericColumn(data.columns[i])
                                /\ f[1].d = 1
                                /\ f[1].n \in NonNullValues(data.columns[i])
    /\ (PolarsCall /\ data.columns = ScenarioColumns) =>
          outcome = [status |-> "returned", records |-> <<ScenarioPolarsA, ScenarioB>>]
    /\ (PandasCall /\ data.columns = ScenarioColumns) =>
          outcome = [status |-> "returned", records |-> <<ScenarioPandasA, ScenarioB>>]

\* the polars strategy has answered for the frame of the test
C6_Witness ==
    /\ PolarsCall
    /\ HasReturned
    /\ data.columns = ScenarioColumns

----------------------------------------------------------------------------
(* C7 *)

Quartile(rec, k) ==
    IF k = 1 THEN rec.lowest_quantile
    ELSE IF k = 2 THEN rec.middle_quantile
    ELSE rec.highest_quantile

\* how many non-null values of the column lie under v, and how many do not
\* lie over it
CountBelow(column, v) ==
    Cardinality({r \in NonNullRows(column) : column.values[r][1] < v})

CountAtMost(column, v) ==
    Cardinality({r \in NonNullRows(column) : column.values[r][1] <= v})

\* C7 (as claimed): the polars strategy computes the 25th, 50th and 75th
\* percentile of a numeric column with a non-null value by linear
\* interpolation over its non-null values.
C7_PolarsLinearInterpolation ==
    (PolarsCall /\ HasReturned) =>
        \A i \in ColumnIndexes :
            (IsNumericColumn(data.columns[i]) /\ NonNullCount(data.columns[i]) >= 1)
            => \A k \in 1..3 :
                   Quartile(outcome.records[i], k)
                       = Some(LinearQuantile(drop_nulls(data.columns[i].values), k))

\* C7 (amended): the polars strategy computes the three percentiles by
\* nearest rank over the non-null values only: the k-th is the value that
\* stands, among the n sorted non-null values, at a position nearest to
\* (n - 1) * k / 4.
C7_PolarsNearestRank ==
    PolarsCall =>
        \A i \in ColumnIndexes :
            (IsNumericColumn(data.columns[i]) /\ NonNullCount(data.columns[i]) >= 1)
            => /\ HasReturned
               /\ \A k \in 1..3 :
                     LET f == Quartile(outcome.records[i], k)
                         n == NonNullCount(data.columns[i])
                     IN  /\ Present(f)
                         /\ f[1].d = 1
                         /\ \E idx \in 0..(n - 1) :
                               /\ Abs(4 * idx - (n - 1) * k) <= 2
                               /\ CountBelow(data.columns[i], f[1].n) <= idx
                               /\ idx < CountAtMost(data.columns[i], f[1].n)

\* a polars record of a numeric column that holds a null and whose median is
\* not the linearly interpolated one
C7_Witness ==
    /\ PolarsCall
    /\ HasReturned
    /\ \E i \in ColumnIndexes :
          /\ IsNumericColumn(data.columns[i])
          /\ NonNullCount(data.columns[i]) >= 2
          /\ NonNullCount(data.columns[i]) < Len(data.columns[i].values)
          /\ outcome.records[i].middle_quantile
                # Some(LinearQuantile(drop_nulls(data.columns[i].values), 2))

----------------------------------------------------------------------------
(* C8 *)

\* C8: under the polars strategy the count of every column, whatever its
\* type, is populated and is the number of its non-null values (0 for an
\* empty or all-null column).
C8_PolarsCountsNonNull ==
    PolarsCall =>
        /\ HasReturned
        /\ \A i \in ColumnIndexes :
              outcome.records[i].count
                  = <<[n |-> NonNullCount(data.columns[i]), d |-> 1]>>

\* a polars answer for a frame with an all-null column and a text column
\* holding both a null and a value
C8_Witness ==
    /\ PolarsCall
    /\ HasReturned
    /\ \E i, j \in ColumnIndexes :
          /\ Len(data.columns[i].values) >= 1
          /\ NonNullCount(data.columns[i]) = 0
          /\ ~IsNumericColumn(data.columns[j])
          /\ NonNullCount(data.columns[j]) >= 1
          /\ NonNullCount(data.columns[j]) < Len(data.columns[j].values)

----------------------------------------------------------------------------
(* C9 *)

FieldOf(rec, label) ==
    IF label = "count" THEN rec.count
    ELSE IF label = "mean" THEN rec.mean_val
    ELSE IF label = "std" THEN rec.std_val
    ELSE IF label = "min" THEN rec.min_val
    ELSE IF label = "max" THEN rec.max_val
    ELSE IF label = "25%" THEN rec.lowest_quantile
    ELSE IF label = "50%" THEN rec.middle_quantile
    ELSE rec.highest_quantile

\* C9 (as claimed): under both pandas strategies, when one of the eight
\* labels is missing from the index of the describe table, describe returns
\* and the field of that label is absent in every record.
C9_MissingLabelGivesAbsentField ==
    (/\ Called
     /\ strategy \in {PandasStrategy, OlderPandasStrategy}
     /\ data.engine = "pandas"
     /\ data.columns # <<>>
     /\ NumericLabels \ DescribeIndex(data.columns) # {})
    => /\ HasReturned
       /\ \A i \in ColumnIndexes :
              \A l \in NumericLabels \ DescribeIndex(data.columns) :
                  FieldOf(outcome.records[i], l) = None

----------------------------------------------------------------------------
(* C10 *)

\* C10 (as claimed): a context built with the token 'auto' answers a pandas
\* frame as the pandas strategy does, a polars frame as the polars strategy
\* does, and raises a type error for any other argument.
C10_AutoSelectsByInputType ==
    (Called /\ strategy = "auto") =>
        /\ data.engine = "pandas" => outcome = PandasTabularAnalyses_describe(data)
        /\ data.engine = "polars" => outcome = PolarsTabularAnalyses_describe(data)
        /\ data.engine = "other" => outcome = [status |-> "raised", error |-> "TypeError"]

----------------------------------------------------------------------------
(* One context over its life: constructed with any specifier, the setter and *)
(* calculate_tabular_statistics called in any order, each operation logged.  *)

MaxOps == 3

\* a specifier that is neither a strategy instance nor an engine token
UnknownToken == "spark"

AnySpecifier == Specifiers \cup {UnknownToken}

\* the dataframes of the documented scenario, a text-only one, the empty ones
\* and an object that is no dataframe
ContextInputs ==
    {[engine |-> e, columns |-> c] :
        e \in {"pandas", "polars"},
        c \in {ScenarioColumns, SubSeq(ScenarioColumns, 2, 2), <<>>}}
    \cup {Unrelated}

\* TabularDataContext.__init__(strategy): the specifier is stored as given
InitContext ==
    /\ strategy \in AnySpecifier
    /\ data \in ContextInputs
    /\ outcome = NoCall
    /\ OthersIdle

\* the strategy setter: the specifier is stored as given, nothing else happens
ReplaceStrategy(s) ==
    /\ strategy' = s
    /\ UNCHANGED <<data, outcome>>

\* what the log gains: the operation and the specifier held after it
Logged(op, s) ==
    /\ Len(trace) < MaxOps
    /\ trace' = Append(trace, [op |-> op, strategy |-> s])

NextContext ==
    \/ \E s \in AnySpecifier :
          ReplaceStrategy(s) /\ Logged("set", s)
          /\ UNCHANGED <<FormatVars, LoaderVars, DatasheetVars, TemplateVars>>
    \/ calculate_tabular_statistics /\ Logged("call", strategy)
          /\ UNCHANGED <<FormatVars, LoaderVars, DatasheetVars, TemplateVars>>

SpecContext == InitContext /\ [][NextContext]_vars

\* the last operation on the context was a call
JustCalled == trace # <<>> /\ trace[Len(trace)].op = "call"

----------------------------------------------------------------------------
\* C11: a context holding a concrete strategy instance gives its caller
\* exactly what that instance's describe gives for the caller's dataframe,
\* whatever the dataframe's engine: nothing is detected, nothing converted.
C11_InstanceIsUsedAsGiven ==
    (Called /\ strategy \in StrategyInstances) =>
        outcome = CASE strategy = PolarsStrategy ->
                         PolarsTabularAnalyses_describe(data)
                    [] strategy = PandasStrategy ->
                         PandasTabularAnalyses_describe(data)
                    [] strategy = OlderPandasStrategy ->
                         analyses_PandasTabularAnalyses_describe(data)

\* the pandas strategy instance was handed a polars dataframe with a column
\* and raised: the dataframe reached it as it was
C11_Witness ==
    /\ Called /\ strategy = PandasStrategy
    /\ data.engine = "polars" /\ data.columns # <<>>
    /\ outcome = Raised("TypeError")

\* C12: with an engine token the dataframe is used as it is when it is of
\* that engine and converted to it otherwise, so the call returns what the
\* engine's strategy returns for the converted dataframe.
C12_TokenConvertsThenDescribes ==
    (Called /\ strategy \in {"pandas", "polars"}
            /\ data.engine \in {"pandas", "polars"}) =>
        LET converted == [data EXCEPT !.engine = strategy]
        IN  outcome = IF strategy = "pandas"
                        THEN PandasTabularAnalyses_describe(converted)
                        ELSE PolarsTabularAnalyses_describe(converted)

\* C13: a call on a context holding a specifier that is neither an instance
\* nor one of the three tokens fails with a value error.
C13_UnknownTokenIsValueError ==
    (JustCalled /\ strategy = UnknownToken) => outcome = Raised("ValueError")

\* C14: what a call gives is what the specifier held at that call gives for
\* the dataframe, whatever was set or returned before.
C14_CallUsesCurrentSpecifier ==
    JustCalled => outcome = describe(strategy, data)

\* a call, then the setter with another instance, then a call whose result
\* is not the one of the first call
C14_Witness ==
    /\ Len(trace) = 3
    /\ trace[1].op = "call" /\ trace[2].op = "set" /\ trace[3].op = "call"
    /\ trace[1].strategy \in StrategyInstances
    /\ strategy \in StrategyInstances
    /\ trace[1].strategy # strategy
    /\ HasReturned
    /\ outcome # describe(trace[1].strategy, data)

C16_AllColumnsOrRaise ==
    Called =>
        \/ outcome.status = "raised"
        \/ /\ HasReturned
           /\ Len(outcome.records) = Len(data.columns)
           /\ \A i \in ColumnIndexes :
                 outcome.records[i].column_name = data.columns[i].name

\* a call on a dataframe with a text column among several returned them all
C16_Witness ==
    /\ Called
    /\ \E i \in ColumnIndexes : data.columns[i].dtype = "str"
    /\ Len(data.columns) >= 2
    /\ HasReturned /\ Len(outcome.records) = Len(data.columns)

----------------------------------------------------------------------------
(* Rendering.  A text is the sequence of its lines (what "\n".join gives);   *)
(* a line is its label and the text of its value; the text of a number is    *)
(* the format it was written with and the digits that format gives.          *)

\* f"{x:.4f}": x in ten-thousandths, rounded to the nearest, ties to even
Fixed4(x) ==
    IF IsNaN(x) THEN [fmt |-> "nan"]
    ELSE LET q == (x.n * 10000) \div x.d
             r == (x.n * 10000) % x.d
         IN  [fmt |-> "fixed4",
              units |-> IF 2 * r > x.d \/ (2 * r = x.d /\ q % 2 = 1)
                          THEN q + 1 ELSE q]

\* the integer part and the rest of n * 10^k / d, by long division
RECURSIVE Scaled(_, _, _)
Scaled(n, d, k) ==
    IF k = 0 THEN [q |-> n \div d, r |-> n % d]
    ELSE LET s == Scaled(n, d, k - 1)
         IN  [q |-> 10 * s.q + (10 * s.r) \div d, r |-> (10 * s.r) % d]

\* the largest s in lo..hi with s * s <= y
RECURSIVE ISqrt(_, _, _)
ISqrt(y, lo, hi) ==
    IF lo = hi THEN lo
    ELSE LET mid == (lo + hi + 1) \div 2
         IN  IF mid * mid <= y THEN ISqrt(y, mid, hi) ELSE ISqrt(y, lo, mid - 1)

\* f"{std:.4f}" for a standard deviation carried as its square v: the square
\* root of v in ten-thousandths, rounded to the nearest
Fixed4Root(v) ==
    IF IsNaN(v) THEN [fmt |-> "nan"]
    ELSE LET y == Scaled(v.n, v.d, 8)
             s == ISqrt(y.q, 0, 46340)
         IN  [fmt |-> "fixed4",
              units |-> IF y.q > s * s + s \/ (y.q = s * s + s /\ 4 * y.r >= v.d)
                          THEN s + 1 ELSE s]

\* f"{x}": str(None) for an absent value, else the number's own repr
Str(field) ==
    IF field = None THEN [fmt |-> "None"] ELSE [fmt |-> "str", value |-> field[1]]

Line(label, text) == [label |-> label, text |-> text]

BlankLine == Line("", [fmt |-> "empty"])

HeadingLine == Line("#### Statistical Analysis", [fmt |-> "empty"])

\* the empty string
EmptyText == <<BlankLine>>

\* lines.append(...) under `if value is not None`
Bullet(label, field, text) ==
    IF field = None THEN <<>> ELSE <<Line(label, text)>>

\* TabularStatistics.markdown
markdown(stat) ==
    <<Line("**Column", [fmt |-> "name", name |-> stat.column_name]),
      Line("- Count", Str(stat.count))>>
    \o (IF stat.mean_val = None THEN <<>>
        ELSE <<Line("- Mean", Fixed4(stat.mean_val[1]))>>)
    \o (IF stat.std_val = None THEN <<>>
        ELSE <<Line("- Standard Deviation", Fixed4Root(stat.std_val[1]))>>)
    \o Bullet("- Min", stat.min_val, Str(stat.min_val))
    \o Bullet("- Max", stat.max_val, Str(stat.max_val))
    \o Bullet("- 25th Percentile", stat.lowest_quantile, Str(stat.lowest_quantile))
    \o Bullet("- Median", stat.middle_quantile, Str(stat.middle_quantile))
    \o Bullet("- 75th Percentile", stat.highest_quantile, Str(stat.highest_quantile))

RECURSIVE Paragraphs(_)
Paragraphs(statistics) ==
    IF statistics = <<>> THEN <<>>
    ELSE markdown(Head(statistics)) \o <<BlankLine>> \o Paragraphs(Tail(statistics))

\* a formatter that puts no blank line after a record
format_without_blank_lines(statistics) ==
    IF statistics = <<>> THEN EmptyText
    ELSE LET Flat[i \in 0..Len(statistics)] ==
                 IF i = 0 THEN <<>> ELSE Flat[i - 1] \o markdown(statistics[i])
         IN  <<HeadingLine, BlankLine>> \o Flat[Len(statistics)]

\* TabularStatistics.format_tabular_statistics_to_markdown
format_tabular_statistics_to_markdown(statistics) ==
    IF statistics = <<>> THEN EmptyText
    ELSE <<HeadingLine, BlankLine>> \o Paragraphs(statistics)

\* a selector that takes the first record whatever it holds
select_first(statistics) ==
    IF statistics = <<>> THEN None ELSE Some(statistics[1])

\* DatasheetCompiler._select_summary_stat
_select_summary_stat(statistics) ==
    LET loop[i \in 1..(Len(statistics) + 1)] ==
            IF i > Len(statistics)
              THEN IF statistics = <<>> THEN None ELSE Some(statistics[1])
            ELSE IF statistics[i].mean_val # None \/ statistics[i].std_val # None
              THEN Some(statistics[i])
            ELSE loop[i + 1]
    IN  loop[1]

Rendered(op, index, result) == [op |-> op, index |-> index, result |-> result]

\* stat.markdown for the i-th record of the list the last call returned
Markdown(i) ==
    /\ HasReturned
    /\ i \in 1..Len(outcome.records)
    /\ rendered' = Rendered("markdown", i, markdown(outcome.records[i]))
    /\ UNCHANGED <<ContextVars, trace, LoaderVars, DatasheetVars, TemplateVars>>

\* TabularStatistics.format_tabular_statistics_to_markdown(statistics)
FormatMany ==
    /\ HasReturned
    /\ rendered' = Rendered("format", 0,
                            format_tabular_statistics_to_markdown(outcome.records))
    /\ UNCHANGED <<ContextVars, trace, LoaderVars, DatasheetVars, TemplateVars>>

\* self._select_summary_stat(stats_list)
SelectSummary ==
    /\ HasReturned
    /\ rendered' = Rendered("select", 0, _select_summary_stat(outcome.records))
    /\ UNCHANGED <<ContextVars, trace, LoaderVars, DatasheetVars, TemplateVars>>

\* a context holding one of the two strategies whose records are rendered
InitFormat ==
    /\ strategy \in {PolarsStrategy, PandasStrategy}
    /\ data \in Inputs
    /\ outcome = NoCall
    /\ OthersIdle

NextFormat ==
    \/ calculate_tabular_statistics
          /\ UNCHANGED <<trace, FormatVars, LoaderVars, DatasheetVars, TemplateVars>>
    \/ \E i \in 1..MaxCols : Markdown(i)
    \/ FormatMany
    \/ SelectSummary

SpecFormat == InitFormat /\ [][NextFormat]_vars

----------------------------------------------------------------------------
BulletLabels ==
    <<"- Count", "- Mean", "- Standard Deviation", "- Min", "- Max",
      "- 25th Percentile", "- Median", "- 75th Percentile">>

BulletFields(stat) ==
    <<stat.count, stat.mean_val, stat.std_val, stat.min_val, stat.max_val,
      stat.lowest_quantile, stat.middle_quantile, stat.highest_quantile>>

\* C17: the markdown of a record is its heading line and all eight bullets
\* in the fixed order, a populated value written with four decimals and an
\* absent one as the placeholder.
C17_EightBulletsWithPlaceholder ==
    rendered.op = "markdown" =>
        LET fields == BulletFields(outcome.records[rendered.index])
            text == rendered.result
        IN  /\ Len(text) = 9
            /\ \A k \in 1..8 :
                  /\ text[k + 1].label = BulletLabels[k]
                  /\ text[k + 1].text.fmt =
                        IF fields[k] = None THEN "N/A" ELSE "fixed4"

\* the line of the text at which the markdown of the i-th record begins
ParagraphStart(statistics, i) ==
    LET start[k \in 1..i] ==
            IF k = 1 THEN 3 ELSE start[k - 1] + Len(markdown(statistics[k - 1])) + 1
    IN  start[i]

\* C18: for no record the formatter gives the empty string; otherwise the
\* text starts with the one heading, and holds after it each record's
\* markdown in the order of the list, each followed by a blank line.
C18_HeadingThenParagraphs ==
    rendered.op = "format" =>
        LET statistics == outcome.records
            text == rendered.result
            n == Len(statistics)
        IN  IF n = 0 THEN text = EmptyText
            ELSE /\ text[1] = HeadingLine
                 /\ Cardinality({p \in 1..Len(text) : text[p] = HeadingLine}) = 1
                 /\ Len(text) = ParagraphStart(statistics, n)
                                   + Len(markdown(statistics[n]))
                 /\ \A i \in 1..n :
                       LET from == ParagraphStart(statistics, i)
                           len == Len(markdown(statistics[i]))
                       IN  /\ SubSeq(text, from, from + len - 1)
                                 = markdown(statistics[i])
                           /\ text[from + len] = BlankLine

\* a list with a text column's record and a numeric column's record was
\* formatted
C18_Witness ==
    /\ rendered.op = "format"
    /\ Len(outcome.records) >= 2
    /\ \E i, j \in 1..Len(outcome.records) :
          /\ outcome.records[i].mean_val = None
          /\ outcome.records[j].mean_val # None
    /\ Len(rendered.result) > 4

Qualifies(stat) == stat.mean_val # None \/ stat.std_val # None

\* C19: the selector gives the first record of the list that has a mean or
\* a standard deviation, the first record if none has, and nothing for the
\* empty list.
C19_FirstWithMeanOrStd ==
    rendered.op = "select" =>
        LET statistics == outcome.records
            qualifying == {i \in 1..Len(statistics) : Qualifies(statistics[i])}
        IN  IF statistics = <<>> THEN rendered.result = None
            ELSE IF qualifying = {} THEN rendered.result = Some(statistics[1])
            ELSE \E i \in qualifying :
                    /\ \A j \in qualifying : i <= j
                    /\ rendered.result = Some(statistics[i])

\* the first record has neither and the second, which has, was selected
C19_Witness ==
    /\ rendered.op = "select"
    /\ Len(outcome.records) >= 2
    /\ ~Qualifies(outcome.records[1])
    /\ Qualifies(outcome.records[2])
    /\ rendered.result = Some(outcome.records[2])

----------------------------------------------------------------------------
(* The loaders.  A path is whether it exists and its suffix; the environment *)
(* is which of the two packages can be imported; a successful load is the    *)
(* read routine that was invoked.                                            *)

SUPPORTED_DATA_EXTENSIONS == {".csv", ".tsv", ".parquet", ".json"}

Suffixes == SUPPORTED_DATA_EXTENSIONS \cup {".CSV", ".Json", ".txt", ""}

Backends == {"auto", "pandas", "polars", "spark"}

Paths == [exists : BOOLEAN, suffix : Suffixes]

Environments == [polars : BOOLEAN, pandas : BOOLEAN]

\* file_path.suffix.lower()
lower(suffix) ==
    CASE suffix = ".CSV" -> ".csv"
      [] suffix = ".Json" -> ".json"
      [] OTHER -> suffix

LoadError(error, message) ==
    [status |-> "raised", error |-> error, message |-> message]

\* the dataframe a read routine returns, and the backend reported with it
Read(routine, separator, resolved) ==
    [status |-> "read", routine |-> routine, separator |-> separator,
     resolved |-> resolved]

\* a loader that looks at the extension before it looks for the file
api_load_extension_first(path, backend, env) ==
    IF lower(path.suffix) \notin SUPPORTED_DATA_EXTENSIONS
      THEN LoadError("ValueError", "Unsupported dataset format")
    ELSE IF ~path.exists
      THEN LoadError("FileNotFoundError", "Dataset file not found")
    ELSE Read("pd.read_csv", ",", None)

\* dfd.api.load_tabular_dataset(path, backend)
api_load_tabular_dataset(path, backend, env) ==
    LET extension == lower(path.suffix)
    IN  IF ~path.exists
          THEN LoadError("FileNotFoundError", "Dataset file not found")
        ELSE IF extension \notin SUPPORTED_DATA_EXTENSIONS
          THEN LoadError("ValueError", "Unsupported dataset format")
        ELSE IF backend \in {"polars", "auto"}
          THEN IF ~env.polars
                 THEN LoadError("ModuleNotFoundError", "No module named polars")
               ELSE IF extension \in {".csv", ".tsv"}
                 THEN Read("pl.read_csv",
                           IF extension = ".tsv" THEN "\t" ELSE ",", None)
               ELSE IF extension = ".parquet"
                 THEN Read("pl.read_parquet", "", None)
               ELSE LoadError("ValueError", "Polars backend supports")
        ELSE IF ~env.pandas
          THEN LoadError("ModuleNotFoundError", "No module named pandas")
        ELSE IF extension = ".csv" THEN Read("pd.read_csv", ",", None)
        ELSE IF extension = ".tsv" THEN Read("pd.read_csv", "\t", None)
        ELSE IF extension = ".parquet" THEN Read("pd.read_parquet", "", None)
        ELSE IF extension = ".json" THEN Read("pd.read_json", "", None)
        ELSE LoadError("ValueError", "Pandas backend supports")

\* the pandas half of Datasheet.load_tabular_dataset, and its last line
Datasheet_load_pandas(extension, backend, env) ==
    IF backend \in {"pandas", "auto"}
      THEN IF ~env.pandas
             THEN LoadError("ImportError", "Pandas backend requires")
           ELSE IF extension = ".csv" THEN Read("pd.read_csv", ",", Some("pandas"))
           ELSE IF extension = ".tsv" THEN Read("pd.read_csv", "\t", Some("pandas"))
           ELSE IF extension = ".parquet"
             THEN Read("pd.read_parquet", "", Some("pandas"))
           ELSE IF extension = ".json"
             THEN Read("pd.read_json", "", Some("pandas"))
           ELSE LoadError("ValueError", "Pandas backend supports")
    ELSE LoadError("ValueError", "Pandas backend supports")

\* Datasheet.load_tabular_dataset(path, backend=backend)
Datasheet_load_tabular_dataset(path, backend, env) ==
    LET extension == lower(path.suffix)
    IN  IF ~path.exists
          THEN LoadError("FileNotFoundError", "Dataset file not found")
        ELSE IF extension \notin SUPPORTED_DATA_EXTENSIONS
          THEN LoadError("ValueError", "Unsupported dataset format")
        ELSE IF backend \in {"polars", "auto"}
          THEN IF ~env.polars
                 THEN IF backend = "polars"
                        THEN LoadError("ImportError", "Polars backend requires")
                        ELSE Datasheet_load_pandas(extension, backend, env)
               ELSE IF extension \in {".csv", ".tsv"}
                 THEN Read("pl.read_csv",
                           IF extension = ".tsv" THEN "\t" ELSE ",",
                           Some("polars"))
               ELSE IF extension = ".parquet"
                 THEN Read("pl.read_parquet", "", Some("polars"))
               ELSE IF backend = "polars"
                 THEN LoadError("ValueError", "Polars backend supports")
               ELSE Datasheet_load_pandas(extension, backend, env)
        ELSE Datasheet_load_pandas(extension, backend, env)

Request(loader, path, backend, env) ==
    [loader |-> loader, path |-> path, backend |-> backend, env |-> env]

\* no context call is part of a load
InitLoad ==
    /\ strategy = "auto"
    /\ data = Unrelated
    /\ outcome = NoCall
    /\ OthersIdle

ApiLoad(path, backend, env) ==
    /\ request' = Request("api", path, backend, env)
    /\ loaded' = api_load_tabular_dataset(path, backend, env)
    /\ UNCHANGED <<ContextVars, trace, FormatVars, DatasheetVars, TemplateVars>>

DatasheetLoad(path, backend, env) ==
    /\ request' = Request("create", path, backend, env)
    /\ loaded' = Datasheet_load_tabular_dataset(path, backend, env)
    /\ UNCHANGED <<ContextVars, trace, FormatVars, DatasheetVars, TemplateVars>>

NextLoad ==
    \/ \E path \in Paths, backend \in Backends, env \in Environments :
          ApiLoad(path, backend, env)
    \/ \E path \in Paths, backend \in Backends, env \in Environments :
          DatasheetLoad(path, backend, env)

SpecLoad == InitLoad /\ [][NextLoad]_vars

----------------------------------------------------------------------------
Requested == request # NoRequest

\* C20: a load of a path that does not exist raises the not-found error,
\* whatever its extension and backend; a load of an existing path whose
\* extension is none of the four, in any case of letters, raises the format
\* error; neither invokes a read routine.
C20_NotFoundThenFormatError ==
    Requested =>
        /\ ~request.path.exists =>
              /\ loaded.status = "raised"
              /\ loaded.error = "FileNotFoundError"
        /\ (request.path.exists /\ request.path.suffix \in {".txt", ""}) =>
              /\ loaded.status = "raised"
              /\ loaded.error = "ValueError"
              /\ loaded.message = "Unsupported dataset format"
        /\ (request.path.exists /\ request.path.suffix \in {".CSV", ".Json"}) =>
              ~(loaded.status = "raised"
                  /\ loaded.message = "Unsupported dataset format")

\* a missing path with an unsupported extension was asked of either loader,
\* with a backend that is none of the three
C20_Witness ==
    /\ Requested
    /\ ~request.path.exists
    /\ request.path.suffix = ".txt"
    /\ request.backend = "spark"
    /\ loaded = LoadError("FileNotFoundError", "Dataset file not found")

----------------------------------------------------------------------------
(* The Datasheet: one object over its life.  strategy is the specifier its   *)
(* context holds, data is self.data, outcome is what the last call gave.     *)

\* the analysis specifiers a Datasheet is made with in the tests
DatasheetSpecifiers == {PolarsStrategy, PandasStrategy, "pandas"}

\* the two dataframes of the tests and a dataframe the strategies refuse
DatasheetInputs ==
    {[engine |-> "polars", columns |-> ScenarioColumns],
     [engine |-> "pandas", columns |-> ScenarioColumns],
     [engine |-> "pandas", columns |-> <<>>]}

\* Datasheet.__init__
InitDatasheet ==
    /\ strategy \in DatasheetSpecifiers
    /\ data \in DatasheetInputs
    /\ outcome = NoCall
    /\ OthersIdle

\* Datasheet.statistics and Datasheet.data_statistics
Datasheet_statistics == _statistics

Datasheet_data_statistics == _statistics

\* an analysis that returns its result and stores nothing
run_analyses_forgetting ==
    /\ outcome' = describe(strategy, data)
    /\ UNCHANGED <<strategy, data, _statistics>>

\* Datasheet._run_analyses: the assignment happens only if the call returned
_run_analyses ==
    /\ outcome' = describe(strategy, data)
    /\ _statistics' = IF outcome'.status = "returned"
                        THEN Some(outcome'.records) ELSE _statistics
    /\ UNCHANGED <<strategy, data>>

\* Datasheet.analyse
analyse == _run_analyses

\* Datasheet.create_datasheet
create_datasheet == analyse

\* an ensure_statistics that runs the analysis on every call
ensure_recomputing == _run_analyses

\* Datasheet.ensure_statistics
ensure_statistics ==
    IF _statistics = None
      THEN _run_analyses
      ELSE /\ outcome' = Returned(_statistics[1])
           /\ UNCHANGED <<strategy, data, _statistics>>

\* compiler.compile(...): DatasheetCompiler has no attribute compile
DatasheetCompiler_compile == Raised("AttributeError")

\* Datasheet.to_markdown(output_path): ensure_statistics, then the compiler
Datasheet_to_markdown ==
    IF _statistics = None /\ describe(strategy, data).status = "raised"
      THEN /\ outcome' = describe(strategy, data)
           /\ UNCHANGED <<strategy, data, _statistics, file>>
      ELSE /\ _statistics' = IF _statistics = None
                               THEN Some(describe(strategy, data).records)
                               ELSE _statistics
           /\ outcome' = DatasheetCompiler_compile
           /\ UNCHANGED <<strategy, data, file>>

\* datasheet.data = frame
ReplaceData(frame) ==
    /\ frame # data
    /\ data' = frame
    /\ UNCHANGED <<strategy, outcome, _statistics>>

DatasheetFrame == <<FormatVars, LoaderVars, cached_structure, structure, template_dir>>

NextDatasheet ==
    \/ analyse /\ Logged("analyse", strategy) /\ UNCHANGED <<file, DatasheetFrame>>
    \/ create_datasheet /\ Logged("create_datasheet", strategy)
          /\ UNCHANGED <<file, DatasheetFrame>>
    \/ ensure_statistics /\ Logged("ensure_statistics", strategy)
          /\ UNCHANGED <<file, DatasheetFrame>>
    \/ Datasheet_to_markdown /\ Logged("to_markdown", strategy)
          /\ UNCHANGED DatasheetFrame
    \/ \E frame \in DatasheetInputs :
          ReplaceData(frame) /\ Logged("data", strategy)
          /\ UNCHANGED <<file, DatasheetFrame>>

SpecDatasheet == InitDatasheet /\ [][NextDatasheet]_vars

----------------------------------------------------------------------------
\* the operation a step makes, and the operations made so far
StepOp == IF trace' # trace THEN trace'[Len(trace')].op ELSE "none"

OpsMade == {trace[i].op : i \in 1..Len(trace)}

AnalysisOps == {"analyse", "create_datasheet", "ensure_statistics", "to_markdown"}

\* C21: both properties give None as long as no analysis has run; when
\* analyse or create_datasheet returns a list both give that list, and they
\* keep giving it until an analysis runs again.
C21_PropertiesGiveLastAnalysis ==
    [][/\ (OpsMade \cap AnalysisOps = {}) =>
              (Datasheet_statistics = None /\ Datasheet_data_statistics = None)
       /\ (StepOp \in {"analyse", "create_datasheet"}
              /\ outcome'.status = "returned") =>
              /\ Datasheet_statistics' = Some(outcome'.records)
              /\ Datasheet_data_statistics' = Some(outcome'.records)
       /\ (StepOp \notin AnalysisOps) =>
              /\ Datasheet_statistics' = Datasheet_statistics
              /\ Datasheet_data_statistics' = Datasheet_data_statistics]_vars

\* create_datasheet returned the two records of the scenario and the
\* property gives them
C21_Witness ==
    /\ trace # <<>>
    /\ trace[Len(trace)].op = "create_datasheet"
    /\ HasReturned
    /\ Len(outcome.records) = 2
    /\ Datasheet_statistics = Some(outcome.records)

\* the last operation made on the object
LastOp == IF trace = <<>> THEN "none" ELSE trace[Len(trace)].op

\* C22: to_markdown on a Datasheet made from a pandas dataframe with the
\* 'pandas' analysis computes the statistics, writes the document and
\* returns the path it was given.
C22_ToMarkdownWritesAndReturnsPath ==
    (LastOp = "to_markdown" /\ strategy = "pandas"
        /\ data = [engine |-> "pandas", columns |-> ScenarioColumns]) =>
        /\ outcome.status = "returned"
        /\ _statistics # None
        /\ file # NoFile

\* C24: ensure_statistics and to_markdown run the analysis only while the
\* cache is None, and otherwise leave the cache alone and work with the
\* cached list, whatever self.data is by then; analyse and create_datasheet
\* run it on every call and overwrite the cache; a call whose analysis
\* raises leaves the cache as it was.
C24_CacheDiscipline ==
    [][LET result == describe(strategy, data)
           stored == IF result.status = "returned"
                       THEN Some(result.records) ELSE _statistics
       IN  /\ (StepOp \in {"ensure_statistics", "to_markdown"}
                  /\ _statistics # None) =>
                  /\ _statistics' = _statistics
                  /\ StepOp = "ensure_statistics" =>
                        outcome' = Returned(_statistics[1])
           /\ (StepOp \in {"ensure_statistics", "to_markdown"}
                  /\ _statistics = None) =>
                  /\ _statistics' = stored
                  /\ StepOp = "ensure_statistics" => outcome' = result
           /\ (StepOp \in {"analyse", "create_datasheet"}) =>
                  /\ _statistics' = stored
                  /\ outcome' = result]_vars

\* self.data was replaced after an analysis and ensure_statistics then gave
\* the cached list, which is not what the analysis of the new data gives
C24_Witness ==
    /\ Len(trace) >= 2
    /\ trace[Len(trace) - 1].op = "data"
    /\ LastOp = "ensure_statistics"
    /\ _statistics # None
    /\ outcome = Returned(_statistics[1])
    /\ outcome # describe(strategy, data)

\* C25: for an existing file with a supported extension and both packages
\* installed, either loader rejects exactly the 'polars' backend with a JSON
\* file, with a value error, and reads everything else; with 'auto' a JSON
\* file is read by pandas.
C25_LoadersAgree ==
    (Requested /\ request.path.exists
        /\ request.env = [polars |-> TRUE, pandas |-> TRUE]
        /\ lower(request.path.suffix) \in SUPPORTED_DATA_EXTENSIONS
        /\ request.backend \in {"auto", "pandas", "polars"}) =>
        IF request.backend = "polars" /\ lower(request.path.suffix) = ".json"
          THEN loaded.status = "raised" /\ loaded.error = "ValueError"
          ELSE /\ loaded.status = "read"
               /\ lower(request.path.suffix) = ".json" =>
                     loaded.routine = "pd.read_json"

----------------------------------------------------------------------------
(* Cards and structures.  A text is the sequence of its lines, the empty     *)
(* string being no line at all; a line of a document is the run of '#' its   *)
(* stripped form starts with, the rest of it, and the statistics bullet it   *)
(* carries, if any.                                                          *)

MOTIVATION == "motivation"

COMPOSITION == "composition"

COLLECTION_PROCESS == "collection_process"

PREPROCESSING == "preprocessing"

USES == "uses"

DISTRIBUTION == "distribution"

MAINTENANCE == "maintenance"

AUTOMATED_ANALYSIS == "automated_analysis"

\* BaseLayout.DEFAULT_SECTION_ORDER, and the fallback of to_markdown
DEFAULT_SECTION_ORDER ==
    <<MOTIVATION, COMPOSITION, COLLECTION_PROCESS, PREPROCESSING, USES,
      DISTRIBUTION, MAINTENANCE, AUTOMATED_ANALYSIS>>

\* BaseLayout.__init__: required_sections, the default of sections as well
required_sections ==
    <<MOTIVATION, COMPOSITION, COLLECTION_PROCESS, PREPROCESSING, USES,
      DISTRIBUTION, MAINTENANCE>>

PleaseProvide == "[Please provide your answer here]"

WillBePopulated == "[This section will be automatically populated by the compiler]"

\* str.strip() on the lines that occur
strip(line) ==
    CASE line = " answer" -> "answer"
      [] line = "more " -> "more"
      [] line = " " -> ""
      [] line = " [Please provide details]" -> "[Please provide details]"
      [] line = " # note" -> "# note"
      [] OTHER -> line

\* the text with its leading and trailing blank lines removed, each end
\* stripped: what text.strip() is made of
NonBlankLines(text) == SelectSeq(text, LAMBDA line : strip(line) # "")

\* text.strip().startswith("[Please provide")
StartsWithPleaseProvide(text) ==
    /\ NonBlankLines(text) # <<>>
    /\ strip(NonBlankLines(text)[1]) \in {PleaseProvide, "[Please provide details]"}

MANUAL == "manual"

AUTOMATED == "automated"

MIXED == "mixed"

Card(section, heading, sub_heading, text, card_type, result_data, is_required, auto_populated) ==
    [section |-> section, heading |-> heading, sub_heading |-> sub_heading,
     text |-> text, card_type |-> card_type, result_data |-> result_data,
     is_required |-> is_required, auto_populated |-> auto_populated]

\* DatasheetInformationCard.create_from_template
create_from_template(section, heading, sub_heading) ==
    Card(section, heading, sub_heading, <<PleaseProvide>>, MANUAL, None, TRUE, FALSE)

\* DatasheetInformationCard.create_automated
create_automated(section, heading, result_data, description) ==
    Card(section, heading, None, description, AUTOMATED, Some(result_data), TRUE, TRUE)

\* len(self.result_data) > 0 for a result_data that is not None
HasResults(card) == card.result_data # None /\ card.result_data[1] # <<>>

\* a card that takes any text for an answer
is_complete_any_text(card) ==
    IF card.card_type = AUTOMATED THEN HasResults(card)
    ELSE NonBlankLines(card.text) # <<>> \/ (card.card_type = MIXED /\ HasResults(card))

\* DatasheetInformationCard.is_complete
is_complete(card) ==
    IF card.card_type = AUTOMATED THEN HasResults(card)
    ELSE IF card.card_type = MANUAL
      THEN card.text # <<>> /\ NonBlankLines(card.text) # <<>>
              /\ ~StartsWithPleaseProvide(card.text)
    ELSE (card.text # <<>> /\ NonBlankLines(card.text) # <<>>) \/ HasResults(card)

DocLine(hashes, body) == [hashes |-> hashes, body |-> body, stat |-> None]

StatLine(line) == [hashes |-> 0, body |-> "statistics", stat |-> Some(line)]

Blank == DocLine(0, "")

\* a line of text as the document holds it: the '#' run it starts with
\* once stripped, and the rest
TextLine(line) ==
    CASE strip(line) = "# note" -> DocLine(1, "note")
      [] strip(line) = "## Uses" -> DocLine(2, "Uses")
      [] strip(line) = "### Purpose" -> DocLine(3, "Purpose")
      [] OTHER -> [hashes |-> 0, body |-> line, stat |-> None]

TextLines(text) == [i \in 1..Len(text) |-> TextLine(text[i])]

StatLines(stat) ==
    LET lines == markdown(stat) IN [i \in 1..Len(lines) |-> StatLine(lines[i])]

RECURSIVE ResultLines(_)
ResultLines(result_data) ==
    IF result_data = <<>> THEN <<>>
    ELSE StatLines(Head(result_data)) \o <<Blank>> \o ResultLines(Tail(result_data))

\* DatasheetInformationCard.to_markdown; template_questions is empty
Card_to_markdown(card) ==
    <<DocLine(3, IF card.sub_heading # None THEN card.sub_heading[1]
                                            ELSE card.heading),
      Blank>>
    \o (IF card.text # <<>> THEN TextLines(card.text) \o <<Blank>> ELSE <<>>)
    \o (IF HasResults(card)
          THEN <<DocLine(4, "Statistical Analysis"), Blank>>
                  \o ResultLines(card.result_data[1])
          ELSE <<>>)

\* section.value.replace('_', ' ').title()
section_title(section) ==
    CASE section = MOTIVATION -> "Motivation"
      [] section = COMPOSITION -> "Composition"
      [] section = COLLECTION_PROCESS -> "Collection Process"
      [] section = PREPROCESSING -> "Preprocessing"
      [] section = USES -> "Uses"
      [] section = DISTRIBUTION -> "Distribution"
      [] section = MAINTENANCE -> "Maintenance"
      [] section = AUTOMATED_ANALYSIS -> "Automated Analysis"

\* DatasheetStructure(title, version, date_created)
DatasheetStructure(title, cards) == [created |-> TRUE, title |-> title, cards |-> cards]

\* DatasheetStructure.get_cards_by_section
get_cards_by_section(cards, section) ==
    SelectSeq(cards, LAMBDA card : card.section = section)

\* BaseLayout(section_order = order).get_ordered_sections()
get_ordered_sections(order) ==
    IF order = <<>> THEN DEFAULT_SECTION_ORDER ELSE order

RECURSIVE CardParagraphs(_)
CardParagraphs(cards) ==
    IF cards = <<>> THEN <<>>
    ELSE Card_to_markdown(Head(cards)) \o <<Blank>> \o CardParagraphs(Tail(cards))

RECURSIVE SectionParagraphs(_, _)
SectionParagraphs(cards, sections_order) ==
    IF sections_order = <<>> THEN <<>>
    ELSE LET section_cards == get_cards_by_section(cards, Head(sections_order))
         IN  (IF section_cards # <<>>
                THEN <<DocLine(2, section_title(Head(sections_order))), Blank>>
                        \o CardParagraphs(section_cards)
                        \o <<DocLine(0, "---"), Blank>>
                ELSE <<>>)
             \o SectionParagraphs(cards, Tail(sections_order))

\* a to_markdown that writes the cards in the order they were added
to_markdown_in_insertion_order(title, cards, layout) ==
    <<DocLine(1, title), Blank, DocLine(0, "**Version:**"), DocLine(0, "**Date:**"),
      Blank, DocLine(0, "---"), Blank>>
    \o CardParagraphs(cards)

\* DatasheetStructure.to_markdown(layout); layout is None or the
\* section_order the layout was made with
DatasheetStructure_to_markdown(title, cards, layout) ==
    <<DocLine(1, title), Blank, DocLine(0, "**Version:**"), DocLine(0, "**Date:**"),
      Blank, DocLine(0, "---"), Blank>>
    \o SectionParagraphs(cards, IF layout = None THEN DEFAULT_SECTION_ORDER
                                ELSE get_ordered_sections(layout[1]))

\* completed / total * 100, and 0 for no card
Percentage(completed, total) ==
    IF total > 0 THEN Rat(completed * 100, total) ELSE Rat(0, 1)

\* DatasheetStructure.is_complete
DatasheetStructure_is_complete(cards) ==
    \A i \in 1..Len(cards) : cards[i].is_required => is_complete(cards[i])

\* DatasheetStructure.get_completion_status
get_completion_status(cards) ==
    LET total_cards == Len(cards)
        completed_cards == Len(SelectSeq(cards, is_complete))
        required_cards == Len(SelectSeq(cards, LAMBDA card : card.is_required))
        completed_required ==
            Len(SelectSeq(cards, LAMBDA card : card.is_required /\ is_complete(card)))
    IN  [total_cards |-> total_cards,
         completed_cards |-> completed_cards,
         completion_percentage |-> Percentage(completed_cards, total_cards),
         required_cards |-> required_cards,
         completed_required |-> completed_required,
         required_completion_percentage |->
             Percentage(completed_required, required_cards),
         is_complete |-> DatasheetStructure_is_complete(cards)]

----------------------------------------------------------------------------
(* One structure built by its caller: cards added and edited, and the        *)
(* structure read by to_markdown and get_completion_status.                  *)

MaxCards == 2

\* the cards a caller adds: two from the template, one automated, one mixed
NewCards ==
    {create_from_template(MOTIVATION, "motivation", None),
     create_from_template(USES, "uses", Some("Purpose")),
     create_automated(AUTOMATED_ANALYSIS, "Dataset Statistics", <<ScenarioB>>,
                      <<"answer">>),
     Card(MOTIVATION, "motivation", Some("Funding"), <<>>, MIXED, None, FALSE, FALSE)}

\* the texts a caller gives a card
Answers == {<<>>, <<" ">>, <<" [Please provide details]">>, <<"answer">>}

\* the results a caller gives a card
Results == {None, Some(<<>>), Some(<<ScenarioB>>)}

\* the layouts to_markdown is called with: none, BaseLayout(), and layouts
\* made with a section_order of their own
Layouts ==
    {None, Some(<<>>), Some(<<USES, MOTIVATION, AUTOMATED_ANALYSIS>>),
     Some(<<USES, MOTIVATION>>),
     Some(<<MOTIVATION, USES, MOTIVATION>>)}

InitStructure ==
    /\ strategy = "auto"
    /\ data = Unrelated
    /\ outcome = NoCall
    /\ trace = <<>>
    /\ rendered = NoRender
    /\ request = NoRequest
    /\ loaded = NotLoaded
    /\ _statistics = None
    /\ file = NoFile
    /\ cached_structure = None
    /\ structure = DatasheetStructure("Dataset Datasheet", <<>>)
    /\ template_dir = NoTemplates

StructureFrame ==
    <<ContextVars, trace, LoaderVars, DatasheetVars, file, cached_structure,
      template_dir>>

\* DatasheetStructure.add_card(card)
add_card(card) ==
    /\ Len(structure.cards) < MaxCards
    /\ structure' = [structure EXCEPT !.cards = Append(@, card)]
    /\ rendered' = NoRender
    /\ UNCHANGED StructureFrame

\* structure.cards[i].text = text
SetText(i, text) ==
    /\ i \in 1..Len(structure.cards)
    /\ structure.cards[i].card_type # AUTOMATED
    /\ structure' = [structure EXCEPT !.cards[i].text = text]
    /\ rendered' = NoRender
    /\ UNCHANGED StructureFrame

\* structure.cards[i].result_data = result_data
SetResultData(i, result_data) ==
    /\ i \in 1..Len(structure.cards)
    /\ structure.cards[i].card_type # MANUAL
    /\ structure' = [structure EXCEPT !.cards[i].result_data = result_data]
    /\ rendered' = NoRender
    /\ UNCHANGED StructureFrame

\* structure.to_markdown(layout)
ToMarkdown(layout) ==
    /\ rendered' = [op |-> "to_markdown", layout |-> layout,
                    result |-> DatasheetStructure_to_markdown(
                                   structure.title, structure.cards, layout)]
    /\ UNCHANGED <<StructureFrame, structure>>

\* structure.get_completion_status()
GetCompletionStatus ==
    /\ rendered' = [op |-> "get_completion_status",
                    result |-> get_completion_status(structure.cards)]
    /\ UNCHANGED <<StructureFrame, structure>>

NextStructure ==
    \/ \E card \in NewCards : add_card(card)
    \/ \E i \in 1..MaxCards, text \in Answers : SetText(i, text)
    \/ \E i \in 1..MaxCards, result_data \in Results : SetResultData(i, result_data)
    \/ \E layout \in Layouts : ToMarkdown(layout)
    \/ GetCompletionStatus

SpecStructure == InitStructure /\ [][NextStructure]_vars

----------------------------------------------------------------------------
\* the bodies of the lines of a document that have the given number of '#'
Headings(document, hashes) ==
    LET lines == SelectSeq(document, LAMBDA line : line.hashes = hashes)
    IN  [i \in 1..Len(lines) |-> lines[i].body]

\* the place of a section in an order, 0 if it is not in it
PlaceIn(order, title) ==
    IF \E k \in 1..Len(order) : section_title(order[k]) = title
      THEN CHOOSE k \in 1..Len(order) :
              /\ section_title(order[k]) = title
              /\ \A j \in 1..(k - 1) : section_title(order[j]) # title
      ELSE 0

CardTitle(card) == IF card.sub_heading # None THEN card.sub_heading[1] ELSE card.heading

\* the order a to_markdown call worked with
OrderUsed ==
    IF rendered.layout = None \/ rendered.layout = Some(<<>>)
      THEN DEFAULT_SECTION_ORDER ELSE rendered.layout[1]

\* the section headings of the document are the sections that have a card,
\* each once, in the order of the layout; every card is in the document
\* once; the cards of a section are in the order they were added
LayoutOrderKept ==
    LET cards == structure.cards
        sections == Headings(rendered.result, 2)
        emitted == Headings(rendered.result, 3)
    IN  /\ \A a, b \in 1..Len(sections) :
              a < b => /\ sections[a] # sections[b]
                       /\ PlaceIn(OrderUsed, sections[a])
                             < PlaceIn(OrderUsed, sections[b])
        /\ {sections[a] : a \in 1..Len(sections)}
              = {section_title(cards[i].section) : i \in 1..Len(cards)}
        /\ Len(emitted) = Len(cards)
        /\ \A section \in {cards[i].section : i \in 1..Len(cards)} :
              LET of_section == get_cards_by_section(cards, section)
                  titles == [i \in 1..Len(of_section) |-> CardTitle(of_section[i])]
              IN  \E from \in 1..Len(emitted) :
                     /\ from + Len(titles) - 1 <= Len(emitted)
                     /\ SubSeq(emitted, from, from + Len(titles) - 1) = titles

NamesEachSectionOnce ==
    \A i \in 1..Len(structure.cards) :
        Cardinality({k \in 1..Len(OrderUsed) :
                        OrderUsed[k] = structure.cards[i].section}) = 1

NeverComplete(card) ==
    \/ /\ card.card_type = MANUAL
       /\ card.text \in {<<PleaseProvide>>, <<" [Please provide details]">>}
    \/ /\ card.card_type = AUTOMATED
       /\ card.result_data \in {None, Some(<<>>)}

\* C30: the counts of get_completion_status are ordered, is_complete says
\* that all required cards are complete, a percentage over no card is 0, and
\* no manual card holding the placeholder and no automated card without
\* results is among the completed ones.
C30_CompletionStatusIsConsistent ==
    rendered.op = "get_completion_status" =>
        LET status == rendered.result
            cards == structure.cards
            never == {i \in 1..Len(cards) : NeverComplete(cards[i])}
            never_required == {i \in never : cards[i].is_required}
        IN  /\ status.total_cards = Len(cards)
            /\ status.completed_required <= status.required_cards
            /\ status.required_cards <= status.total_cards
            /\ status.completed_required <= status.completed_cards
            /\ status.completed_cards <= status.total_cards
            /\ status.is_complete <=>
                  (status.completed_required = status.required_cards)
            /\ status.total_cards = 0 => status.completion_percentage = Rat(0, 1)
            /\ status.required_cards = 0 =>
                  status.required_completion_percentage = Rat(0, 1)
            /\ status.completed_cards <= Len(cards) - Cardinality(never)
            /\ status.completed_required
                  <= status.required_cards - Cardinality(never_required)

\* a structure with a manual card holding a placeholder and a completed
\* card was asked for its status
C30_Witness ==
    /\ rendered.op = "get_completion_status"
    /\ Len(structure.cards) = 2
    /\ \E i \in 1..2 : /\ structure.cards[i].card_type = MANUAL
                       /\ structure.cards[i].text = <<" [Please provide details]">>
    /\ rendered.result.completed_cards = 1
    /\ ~rendered.result.is_complete

----------------------------------------------------------------------------
(* The parser of filled templates.  The result is a function from keys to    *)
(* texts; a key is <<section>> or <<section, subsection>>.                   *)

\* TemplateManager._generate_key: 'section::subsection', or 'section'
_generate_key(section, subsection) ==
    IF subsection # None THEN <<section, subsection[1]>> ELSE <<section>>

\* line_stripped[3:].strip().lower().replace(' ', '_')
SectionKey(body) ==
    CASE body = "Motivation" -> "motivation"
      [] body = "Composition" -> "composition"
      [] body = "Collection Process" -> "collection_process"
      [] body = "Preprocessing" -> "preprocessing"
      [] body = "Uses" -> "uses"
      [] body = "Distribution" -> "distribution"
      [] body = "Maintenance" -> "maintenance"
      [] body = "Automated Analysis" -> "automated_analysis"
      [] OTHER -> body

\* filled_data[key] = value
Assign(filled_data, key, value) ==
    [k \in DOMAIN filled_data \cup {key} |->
        IF k = key THEN value ELSE filled_data[k]]

NoData == [k \in {} |-> <<>>]

ParserStart ==
    [filled_data |-> NoData, current_section |-> None,
     current_subsection |-> None, current_content |-> <<>>, position |-> 1]

\* the body of the loop of _parse_filled_template for one line; position
\* is the place of the loop in lines
ParseLine(p, line) ==
    IF line.hashes = 2
      THEN [filled_data |->
                IF p.current_section # None
                  THEN Assign(p.filled_data,
                              _generate_key(p.current_section[1], p.current_subsection),
                              p.current_content)
                  ELSE p.filled_data,
            current_section |-> Some(SectionKey(line.body)),
            current_subsection |-> None,
            current_content |-> <<>>,
            position |-> p.position + 1]
    ELSE IF line.hashes = 3
      THEN [filled_data |->
                IF p.current_section # None /\ p.current_subsection # None
                  THEN Assign(p.filled_data,
                              _generate_key(p.current_section[1], p.current_subsection),
                              p.current_content)
                  ELSE p.filled_data,
            current_section |-> p.current_section,
            current_subsection |-> Some(line.body),
            current_content |-> <<>>,
            position |-> p.position + 1]
    ELSE IF line.hashes = 0 /\ strip(line.body) # "" /\ strip(line.body) # "---"
      THEN [p EXCEPT !.current_content = Append(@, strip(line.body)),
                     !.position = @ + 1]
    ELSE [p EXCEPT !.position = @ + 1]

RECURSIVE ParseLines(_, _)
ParseLines(p, lines) ==
    IF p.position > Len(lines) THEN p
    ELSE ParseLines(ParseLine(p, lines[p.position]), lines)

\* TemplateManager._parse_filled_template(content)
_parse_filled_template(content) ==
    LET p == ParseLines(ParserStart, content)
    IN  IF p.current_section # None
          THEN Assign(p.filled_data,
                      _generate_key(p.current_section[1], p.current_subsection),
                      p.current_content)
          ELSE p.filled_data

MaxLines == 4

\* the lines of a filled template: section and card headings, answers, a
\* comment, a rule and an empty line
TemplateLines ==
    {DocLine(2, "Motivation"), DocLine(2, "Uses"), DocLine(3, "Purpose"),
     DocLine(3, "Funding"), DocLine(0, "answer"), DocLine(0, "more "),
     DocLine(1, "note"), DocLine(0, "---"), Blank}

RECURSIVE Documents(_)
Documents(n) ==
    IF n = 0 THEN {<<>>}
    ELSE LET shorter == Documents(n - 1)
         IN  shorter \cup {Append(document, line) :
                             document \in {x \in shorter : Len(x) = n - 1},
                             line \in TemplateLines}

Written(content) == [written |-> TRUE, content |-> content]

\* a template somebody filled in
InitParse ==
    /\ strategy = "auto"
    /\ data = Unrelated
    /\ outcome = NoCall
    /\ trace = <<>>
    /\ rendered = NoRender
    /\ request = NoRequest
    /\ loaded = NotLoaded
    /\ _statistics = None
    /\ file \in {Written(content) : content \in Documents(MaxLines)}
    /\ cached_structure = None
    /\ structure = NoStructure
    /\ template_dir = NoTemplates

\* self._parse_filled_template(Path(template_path).read_text())
ParseFilledTemplate ==
    /\ rendered' = [op |-> "_parse_filled_template",
                    result |-> _parse_filled_template(file.content)]
    /\ UNCHANGED <<ContextVars, trace, LoaderVars, DatasheetVars, TemplateVars>>

NextParse == ParseFilledTemplate

SpecParse == InitParse /\ [][NextParse]_vars

----------------------------------------------------------------------------
IsContent(line) ==
    line.hashes = 0 /\ line.body \notin {"", " ", "---"}

\* the key the claim gives the line at position i: the most recent section
\* heading, and the most recent card heading after it
KeyAt(content, i) ==
    LET sections == {j \in 1..(i - 1) : content[j].hashes = 2}
        last_section == CHOOSE j \in sections : \A k \in sections : k <= j
        subsections == {j \in (last_section + 1)..(i - 1) : content[j].hashes = 3}
        last_subsection == CHOOSE j \in subsections : \A k \in subsections : k <= j
    IN  IF sections = {} THEN <<>>
        ELSE IF subsections = {} THEN <<SectionKey(content[last_section].body)>>
        ELSE <<SectionKey(content[last_section].body), content[last_subsection].body>>

\* C26: every content line after a section heading is in the entry of its
\* key, and the entries hold nothing else: the text of a key is the content
\* lines of that key, in order.
C26_EveryContentLineUnderItsKey ==
    rendered.op = "_parse_filled_template" =>
        LET content == file.content
            filled_data == rendered.result
            attributed == {i \in 1..Len(content) :
                              IsContent(content[i]) /\ KeyAt(content, i) # <<>>}
        IN  /\ \A i \in attributed : KeyAt(content, i) \in DOMAIN filled_data
            /\ \A key \in DOMAIN filled_data :
                  Len(filled_data[key])
                     = Cardinality({i \in attributed : KeyAt(content, i) = key})

----------------------------------------------------------------------------
(* The template manager and the compiler over it.  template_dir lists the    *)
(* template files: the section each is named after and its '## ' headings.   *)
(* What the caller holds in structure carries aliased: whether it is the     *)
(* object the manager keeps in _cached_structure.                            *)

TemplateFile(name, headings) == [name |-> name, headings |-> headings]

\* DatasheetTemplate.get_section_names: the values of BaseLayout().sections
get_section_names == required_sections

\* DatasheetTemplate.get_subsection_names(section)
get_subsection_names(dir, section) ==
    LET found == SelectSeq(dir, LAMBDA template : template.name = section)
    IN  IF found = <<>> THEN <<>> ELSE found[1].headings

\* the card create_datasheet_structure makes for a section and a sub_heading
TemplateCard(section_name, sub_heading) ==
    LET card == create_from_template(section_name, section_name, sub_heading)
    IN  IF section_name = AUTOMATED_ANALYSIS
          THEN [card EXCEPT !.card_type = AUTOMATED, !.auto_populated = FALSE,
                            !.text = <<WillBePopulated>>]
          ELSE card

\* the cards of one section
SectionCards(dir, section_name) ==
    LET subsection_names == get_subsection_names(dir, section_name)
    IN  IF subsection_names # <<>>
          THEN [i \in 1..Len(subsection_names) |->
                   TemplateCard(section_name, Some(subsection_names[i]))]
          ELSE <<TemplateCard(section_name, None)>>

RECURSIVE TemplateCards(_, _)
TemplateCards(dir, section_names) ==
    IF section_names = <<>> THEN <<>>
    ELSE SectionCards(dir, Head(section_names))
            \o TemplateCards(dir, Tail(section_names))

\* what a call gives: the manager's cache after it, the structure
\* returned, and whether the returned structure is the cached object
Call(cache, returned, aliased) ==
    [_cached_structure |-> cache, returned |-> returned, aliased |-> aliased]

\* a manager that hands out the structure it keeps
create_returning_the_cache(cache, dir) ==
    IF cache # None THEN Call(cache, cache[1], TRUE)
    ELSE LET built == DatasheetStructure("Dataset Datasheet",
                                         TemplateCards(dir, get_section_names))
         IN  Call(Some(built), built, TRUE)

\* TemplateManager.create_datasheet_structure: model_copy(deep=True) of
\* the cached structure, which is built on the first call
create_datasheet_structure(cache, dir) ==
    IF cache # None THEN Call(cache, cache[1], FALSE)
    ELSE LET built == DatasheetStructure("Dataset Datasheet",
                                         TemplateCards(dir, get_section_names))
         IN  Call(Some(built), built, FALSE)

\* TemplateManager._generate_card_key
_generate_card_key(card) == _generate_key(card.heading, card.sub_heading)

\* the loop of load_filled_template: card.text = filled_data[key]
Filled(cards, filled_data) ==
    [i \in 1..Len(cards) |->
        IF _generate_card_key(cards[i]) \in DOMAIN filled_data
          THEN [cards[i] EXCEPT !.text = filled_data[_generate_card_key(cards[i])]]
          ELSE cards[i]]

\* TemplateManager.load_filled_template(template_path); a structure that
\* is the cached object changes the cache with it
load_filled_template(cache, dir, content) ==
    LET created == create_datasheet_structure(cache, dir)
        populated == [created.returned EXCEPT
                         !.cards = Filled(@, _parse_filled_template(content))]
    IN  Call(IF created.aliased THEN Some(populated) ELSE created._cached_structure,
             populated, created.aliased)

\* TemplateManager.save_structure_as_template(structure, output_path)
save_structure_as_template(saved) ==
    Written(DatasheetStructure_to_markdown(saved.title, saved.cards, None))

\* DatasheetCompiler._add_automated_analysis: the context is made with
\* the token 'auto'; DatasheetStructure has no find_card
_add_automated_analysis(cards, dataset) ==
    LET stats_list == describe("auto", dataset)
    IN  IF stats_list.status = "raised" THEN stats_list
        ELSE Raised("AttributeError")

\* what a compile gave: the exception, or the document written
Compiled(document) == [status |-> "returned", document |-> document]

\* DatasheetCompiler.compile_from_template(template_path, dataset, output_path)
compile_from_template(cache, dir, content, dataset) ==
    LET loading == load_filled_template(cache, dir, content)
        added == _add_automated_analysis(loading.returned.cards, dataset)
    IN  [_cached_structure |-> loading._cached_structure,
         result |-> IF added.status = "raised" THEN added
                    ELSE Compiled(save_structure_as_template(loading.returned).content)]

\* DatasheetCompiler._generate_content_key
_generate_content_key(card) == _generate_key(card.heading, card.sub_heading)

\* DatasheetCompiler.compile_from_scratch(dataset, output_path,
\* dataset_name, manual_content): the cards are copies of the cards of a
\* structure of the manager
compile_from_scratch(cache, dir, dataset, manual_content) ==
    LET template_structure == create_datasheet_structure(cache, dir)
        cards == IF manual_content # None
                   THEN [i \in 1..Len(template_structure.returned.cards) |->
                           LET card_copy == template_structure.returned.cards[i]
                           IN  IF _generate_content_key(card_copy) \in DOMAIN manual_content[1]
                                 THEN [card_copy EXCEPT
                                          !.text = manual_content[1][_generate_content_key(card_copy)]]
                                 ELSE card_copy]
                   ELSE template_structure.returned.cards
        added == _add_automated_analysis(cards, dataset)
    IN  [_cached_structure |-> template_structure._cached_structure,
         result |-> IF added.status = "raised" THEN added
                    ELSE Compiled(save_structure_as_template(
                             DatasheetStructure("Datasheet for dataset", cards)).content)]

\* the templates directory: without a file, as src/ has it, and with a
\* file for the first section that has one heading or two
TemplateDirs ==
    {NoTemplates,
     <<TemplateFile(MOTIVATION, <<"Purpose">>)>>,
     <<TemplateFile(MOTIVATION, <<"Purpose", "Funding">>)>>}

\* the answer a caller writes into a card: two lines of text
TemplateAnswers == {<<"answer", "more">>}

\* the manual_content compile_from_scratch is called with
ManualContents ==
    {None, Some(Assign(NoData, <<MOTIVATION>>, <<"answer">>))}

\* the structure the caller holds
Held(value, aliased) ==
    [created |-> TRUE, title |-> value.title, cards |-> value.cards,
     aliased |-> aliased]

\* TemplateManager() and DatasheetCompiler() over one manager
InitTemplate ==
    /\ strategy = "auto"
    /\ data = [engine |-> "pandas", columns |-> ScenarioColumns]
    /\ outcome = NoCall
    /\ trace = <<>>
    /\ rendered = NoRender
    /\ request = NoRequest
    /\ loaded = NotLoaded
    /\ _statistics = None
    /\ file = NoFile
    /\ cached_structure = None
    /\ structure = NoStructure
    /\ template_dir \in TemplateDirs

TemplateFrame == <<strategy, data, LoaderVars, DatasheetVars, template_dir>>

\* structure = manager.create_datasheet_structure(); rendered keeps the
\* structure the caller held until then, outcome what the last call of
\* the compiler gave when no other call came after it
CreateDatasheetStructure ==
    LET call == create_datasheet_structure(cached_structure, template_dir)
    IN  /\ Len(trace) < MaxOps
        /\ cached_structure' = call._cached_structure
        /\ structure' = Held(call.returned, call.aliased)
        /\ trace' = Append(trace, [op |-> "create_datasheet_structure",
                                   result |-> call.returned])
        /\ rendered' = [op |-> "create_datasheet_structure", held |-> structure]
        /\ outcome' = NoCall
        /\ UNCHANGED file

\* structure.cards[i].text = text
SetCardText(i, text) ==
    /\ structure.created
    /\ i \in 1..Len(structure.cards)
    /\ i <= MaxCards
    /\ structure' = [structure EXCEPT !.cards[i].text = text]
    /\ cached_structure' = IF structure.aliased
                             THEN Some([cached_structure[1] EXCEPT !.cards[i].text = text])
                             ELSE cached_structure
    /\ rendered' = NoRender
    /\ outcome' = NoCall
    /\ UNCHANGED <<trace, file>>

\* manager.save_structure_as_template(structure, path)
SaveStructureAsTemplate ==
    /\ structure.created
    /\ file' = save_structure_as_template(structure)
    /\ rendered' = NoRender
    /\ outcome' = NoCall
    /\ UNCHANGED <<trace, cached_structure, structure>>

\* structure = manager.load_filled_template(path)
LoadFilledTemplate ==
    /\ file.written
    /\ LET call == load_filled_template(cached_structure, template_dir, file.content)
       IN  /\ cached_structure' = call._cached_structure
           /\ structure' = Held(call.returned, call.aliased)
    /\ rendered' = [op |-> "load_filled_template"]
    /\ outcome' = NoCall
    /\ UNCHANGED <<trace, file>>

\* compiler.compile_from_template(path, dataset, output_path)
CompileFromTemplate ==
    /\ file.written
    /\ LET call == compile_from_template(cached_structure, template_dir,
                                         file.content, data)
       IN  /\ cached_structure' = call._cached_structure
           /\ outcome' = call.result @@ [op |-> "compile_from_template"]
    /\ rendered' = NoRender
    /\ UNCHANGED <<trace, file, structure>>

\* compiler.compile_from_scratch(dataset, output_path, name, manual_content)
CompileFromScratch(manual_content) ==
    /\ LET call == compile_from_scratch(cached_structure, template_dir, data,
                                        manual_content)
       IN  /\ cached_structure' = call._cached_structure
           /\ outcome' = call.result @@ [op |-> "compile_from_scratch"]
    /\ rendered' = NoRender
    /\ UNCHANGED <<trace, file, structure>>

NextTemplate ==
    \/ CreateDatasheetStructure /\ UNCHANGED TemplateFrame
    \/ \E i \in 1..MaxCards, text \in TemplateAnswers :
          SetCardText(i, text) /\ UNCHANGED TemplateFrame
    \/ SaveStructureAsTemplate /\ UNCHANGED TemplateFrame
    \/ LoadFilledTemplate /\ UNCHANGED TemplateFrame
    \/ CompileFromTemplate /\ UNCHANGED TemplateFrame
    \/ \E manual_content \in ManualContents :
          CompileFromScratch(manual_content) /\ UNCHANGED TemplateFrame

SpecTemplate == InitTemplate /\ [][NextTemplate]_vars

----------------------------------------------------------------------------
\* a text of non-blank lines that are neither headings nor rules
AllowedText(text) ==
    /\ text # <<>>
    /\ \A i \in 1..Len(text) :
          /\ strip(text[i]) \notin {"", "---"}
          /\ TextLine(text[i]).hashes = 0

Texts(cards) == [i \in 1..Len(cards) |-> cards[i].text]

\* C27: when the file holds what save_structure_as_template wrote for the
\* structure the caller holds, and every card of that structure has a text
\* of non-blank lines that are neither headings nor rules, then
\* load_filled_template on that file gives a structure whose cards, with
\* or without a sub_heading, have the texts they were saved with.
C27_RoundTripRestoresEveryText ==
    [][(/\ rendered'.op = "load_filled_template"
        /\ structure.created
        /\ file = save_structure_as_template(structure)
        /\ \A i \in 1..Len(structure.cards) : AllowedText(structure.cards[i].text))
          => Texts(structure'.cards) = Texts(structure.cards)]_vars

\* the structures create_datasheet_structure has returned, in call order
Created ==
    SelectSeq(trace, LAMBDA call : call.op = "create_datasheet_structure")

\* C28: every call of create_datasheet_structure on the manager returns a
\* structure equal to the one its first call returned, whatever was done
\* to the structures returned before, and what the caller holds is never
\* the cached object.
C28_EveryCreateGivesTheFirst ==
    /\ \A i \in 1..Len(Created) : Created[i].result = Created[1].result
    /\ structure.created => ~structure.aliased

\* a second create after the caller changed the structure it held
C28_Witness ==
    /\ Len(Created) >= 2
    /\ rendered.op = "create_datasheet_structure"
    /\ rendered.held.created
    /\ Texts(rendered.held.cards) # Texts(structure.cards)
    /\ Texts(structure.cards) = Texts(Created[1].result.cards)

\* the lines of a document that head a card named heading
CardHeadings(document, heading) ==
    {i \in 1..Len(document) : document[i] = DocLine(3, heading)}

\* C23: compile_from_template on a template saved from a structure of the
\* manager returns, and the document it wrote has exactly one card
\* 'Dataset Statistics' and no line with the compiler's placeholder.
C23_CompiledHasOneStatisticsCard ==
    (outcome.status # "none" /\ outcome.op = "compile_from_template") =>
        /\ outcome.status = "returned"
        /\ Cardinality(CardHeadings(outcome.document, "Dataset Statistics")) = 1
        /\ \A i \in 1..Len(outcome.document) :
              outcome.document[i].body # WillBePopulated

====
